---- MODULE Spec2Model ----
(***************************************************************************)
(* Model of run.py: relevance feedback with Rocchio query expansion.       *)
(*                                                                         *)
(* Strings are sequences of one-character strings, so that lower(),        *)
(* endswith(), split() and isalpha() are computed and not assumed.         *)
(* A text is the sequence of words word_tokenize() cuts it into (the NLTK  *)
(* tokenizer itself is a library); lowercasing, the isalpha() filter and   *)
(* the stop word filter of tokenize() are computed on those words.         *)
(* Weights are exact rationals <<n, d>> in lowest terms (d > 0), in units  *)
(* of one thousandth: log2(N/df) is Log2Tab[N] - Log2Tab[df], the base-2   *)
(* logarithms rounded to three decimals.                                   *)
(***************************************************************************)
EXTENDS Integers, Sequences, FiniteSets, TLC

VARIABLES
    pc,               \* position of main(): RETRIEVE, JUDGE, EVALUATE, EXPAND, STOP, CRASHED
    target_precision, \* parse_args(): a rational <<n, d>> or NaN
    initial_query,    \* parse_args(): the query string
    current_query_terms,
    iteration,
    results,          \* the batch of the current iteration
    relevance,        \* the judgments of the current iteration
    precision,        \* the precision of the current iteration, <<n, d>>
    new_terms,        \* the terms the last EXPAND step selected (before reordering)
    prev_query_terms, \* history: the query at the start of the last EXPAND step
    n_judged,         \* history: number of judgments collected
    n_indexed,        \* history: number of build_tfidf_index calls
    n_selected,       \* history: number of pick_new_terms_rocchio calls
    arg,              \* function harness: the arguments of the call
    ret               \* function harness: the call made and its result

vars == <<pc, target_precision, initial_query, current_query_terms, iteration,
          results, relevance, precision, new_terms, prev_query_terms,
          n_judged, n_indexed, n_selected, arg, ret>>

loopVars == <<pc, target_precision, initial_query, current_query_terms, iteration,
              results, relevance, precision, new_terms, prev_query_terms,
              n_judged, n_indexed, n_selected>>

----------------------------------------------------------------------------
(* Strings *)

\* str.lower() on one character, for the characters the model uses
LowerChar(c) ==
    CASE c = "A" -> "a" [] c = "B" -> "b" [] c = "C" -> "c" [] c = "D" -> "d"
      [] c = "E" -> "e" [] c = "F" -> "f" [] c = "P" -> "p" [] c = "X" -> "x"
      [] OTHER -> c

\* str.lower()
Lower(s) == [i \in 1..Len(s) |-> LowerChar(s[i])]

\* str.endswith(suffix)
EndsWith(s, suffix) ==
    /\ Len(suffix) <= Len(s)
    /\ SubSeq(s, Len(s) - Len(suffix) + 1, Len(s)) = suffix

AlphaChars == {"a", "b", "c", "d", "e", "f", "l", "o", "p", "s", "t", "x",
               "A", "B", "C", "D", "E", "F", "P", "X"}

\* str.isalpha(): non-empty and every character a letter
IsAlpha(s) == Len(s) > 0 /\ \A i \in 1..Len(s) : s[i] \in AlphaChars

\* str.split(): the maximal runs of non-blank characters
RECURSIVE SplitFrom(_, _, _)
SplitFrom(s, i, cur) ==
    IF i > Len(s) THEN (IF cur = <<>> THEN <<>> ELSE <<cur>>)
    ELSE IF s[i] = " "
         THEN (IF cur = <<>> THEN <<>> ELSE <<cur>>) \o SplitFrom(s, i + 1, <<>>)
         ELSE SplitFrom(s, i + 1, Append(cur, s[i]))

Split(s) == SplitFrom(s, 1, <<>>)

\* str.strip("\""): drop the leading and trailing double quotes
RECURSIVE StripQuotes(_)
StripQuotes(s) ==
    IF s = <<>> THEN s
    ELSE IF Head(s) = "\"" THEN StripQuotes(Tail(s))
    ELSE IF s[Len(s)] = "\"" THEN StripQuotes(SubSeq(s, 1, Len(s) - 1))
    ELSE s

RECURSIVE SeqSum(_)
SeqSum(s) == IF s = <<>> THEN 0 ELSE Head(s) + SeqSum(Tail(s))

Range(s) == {s[i] : i \in 1..Len(s)}

----------------------------------------------------------------------------
(* URLs *)

NON_HTML_EXTENSIONS ==
    { <<".", "p", "d", "f">>, <<".", "d", "o", "c">>, <<".", "d", "o", "c", "x">>,
      <<".", "p", "p", "t">>, <<".", "p", "p", "t", "x">>,
      <<".", "x", "l", "s">>, <<".", "x", "l", "s", "x">> }

is_likely_html(url) ==
    ~ \E ext \in NON_HTML_EXTENSIONS : EndsWith(Lower(url), ext)

----------------------------------------------------------------------------
(* Rationals <<n, d>>, d > 0, in lowest terms *)

Abs(n) == IF n < 0 THEN -n ELSE n

RECURSIVE GCD(_, _)
GCD(a, b) == IF b = 0 THEN a ELSE GCD(b, a % b)

Norm(n, d) ==
    LET g == GCD(Abs(n), d) IN <<n \div g, d \div g>>

RZero == <<0, 1>>
RAdd(a, b) == Norm(a[1] * b[2] + b[1] * a[2], a[2] * b[2])
RSub(a, b) == Norm(a[1] * b[2] - b[1] * a[2], a[2] * b[2])
RMul(a, b) == Norm(a[1] * b[1], a[2] * b[2])
RDivInt(a, k) == Norm(a[1], a[2] * k)
RPos(a) == a[1] > 0

\* a <= b, by the continued-fraction expansions (no cross product to overflow)
RECURSIVE RLe(_, _)
RLe(a, b) ==
    LET q1 == a[1] \div a[2]
        q2 == b[1] \div b[2]
        r1 == a[1] % a[2]
        r2 == b[1] % b[2]
    IN  IF q1 # q2 THEN q1 < q2
        ELSE IF r1 = 0 THEN TRUE
        ELSE IF r2 = 0 THEN FALSE
        ELSE RLe(<<b[2], r2>>, <<a[2], r1>>)

\* round(1000 * log2(n)) for n = 1..11
Log2Tab == <<0, 1000, 1585, 2000, 2322, 2585, 2807, 3000, 3170, 3322, 3459>>

\* math.log(float(N) / df, 2), in thousandths
Log2Ratio(N, df) == Log2Tab[N] - Log2Tab[df]

----------------------------------------------------------------------------
(* Insertion-ordered dictionaries: sequences of [k, v], keys distinct *)

Keys(d) == {d[i].k : i \in 1..Len(d)}

Get(d, key, default) ==
    IF key \in Keys(d)
    THEN (CHOOSE e \in Range(d) : e.k = key).v
    ELSE default

\* d[key] = v: an existing key keeps its place, a new one goes last
Put(d, key, v) ==
    IF key \in Keys(d)
    THEN [i \in 1..Len(d) |-> IF d[i].k = key THEN [k |-> key, v |-> v] ELSE d[i]]
    ELSE Append(d, [k |-> key, v |-> v])

----------------------------------------------------------------------------
(* Retrieval *)

\* A result is the tuple (title, link, snippet, is_html) of search_query
Result(item) ==
    [title |-> item.title, link |-> item.link, snippet |-> item.snippet,
     is_html |-> is_likely_html(item.link)]

\* search_query: the results of the items the API returned; [] when the call raised
search_query(items, raised) ==
    IF raised THEN <<>> ELSE [i \in 1..Len(items) |-> Result(items[i])]

\* The pages behind the links (the words of the extracted text); any other
\* link, and a page that cannot be fetched, gives the empty text
fetch_full_text(url) ==
    CASE url = <<"x">> -> << <<"b">>, <<"C">>, <<"a">> >>
      [] url = <<"x", "/", "e">> -> << <<"e">>, <<"b">>, <<"e">> >>
      [] url = <<"x", "/", "d">> -> << <<"D">>, <<"1">> >>
      [] url = <<"x", ".", "p", "d", "f">> -> << <<"f">> >>
      [] OTHER -> <<>>

----------------------------------------------------------------------------
(* Precision *)

\* Mutant: the pairs of all documents, HTML or not
html_docs_all(res, rel) ==
    [i \in 1..(IF Len(res) <= Len(rel) THEN Len(res) ELSE Len(rel)) |-> <<res[i], rel[i]>>]

\* The (result, judgment) pairs of zip(results, relevance) whose result is HTML
RECURSIVE html_docs(_, _)
html_docs(res, rel) ==
    IF res = <<>> \/ rel = <<>> THEN <<>>
    ELSE (IF Head(res).is_html = TRUE THEN << <<Head(res), Head(rel)>> >> ELSE <<>>)
         \o html_docs(Tail(res), Tail(rel))

compute_precision(res, rel) ==
    LET docs == html_docs(res, rel)
        relevant_html == SeqSum([i \in 1..Len(docs) |-> IF docs[i][2] THEN 1 ELSE 0])
    IN  IF docs = <<>> THEN RZero
        ELSE Norm(relevant_html, Len(docs))

----------------------------------------------------------------------------
(* Indexing *)

\* The stop words among the words of the model
stop_words == { <<"a">>, <<"d">>, <<"s">>, <<"t">> }

RECURSIVE SelectWords(_)
SelectWords(words) ==
    IF words = <<>> THEN <<>>
    ELSE (IF IsAlpha(Head(words)) /\ Head(words) \notin stop_words
          THEN <<Head(words)>> ELSE <<>>) \o SelectWords(Tail(words))

tokenize(text) == SelectWords([i \in 1..Len(text) |-> Lower(text[i])])

RECURSIVE CountTokens(_, _)
CountTokens(tokens, tf_map) ==
    IF tokens = <<>> THEN tf_map
    ELSE CountTokens(Tail(tokens), Put(tf_map, Head(tokens), Get(tf_map, Head(tokens), 0) + 1))

\* df[term] = df.get(term, 0) + 1 for each term of the set
IncrementAll(df, terms) ==
    [t \in DOMAIN df \cup terms |->
        (IF t \in DOMAIN df THEN df[t] ELSE 0) + (IF t \in terms THEN 1 ELSE 0)]

EmptyDf == [t \in {} |-> 0]

\* Mutant: one count per occurrence (for term in tokens)
RECURSIVE CountOccurrences(_, _)
CountOccurrences(df, tokens) ==
    IF tokens = <<>> THEN df
    ELSE CountOccurrences(IncrementAll(df, {Head(tokens)}), Tail(tokens))

\* for term in set(tokens): df[term] = df.get(term, 0) + 1
CountDocument(df, tokens) == IncrementAll(df, Range(tokens))

RECURSIVE IndexFrom(_, _, _, _)
IndexFrom(res, use_full_text, docs_tokens, df) ==
    IF res = <<>> THEN [docs_tokens |-> docs_tokens, df |-> df]
    ELSE LET r == Head(res)
             text == IF use_full_text THEN r.title \o fetch_full_text(r.link)
                     ELSE r.title \o r.snippet
             tokens == tokenize(text)
         IN  IF ~ r.is_html
             THEN IndexFrom(Tail(res), use_full_text, Append(docs_tokens, <<>>), df)
             ELSE IndexFrom(Tail(res), use_full_text,
                            Append(docs_tokens, CountTokens(tokens, <<>>)),
                            CountDocument(df, tokens))

build_tfidf_index(res, use_full_text) == IndexFrom(res, use_full_text, <<>>, EmptyDf)

----------------------------------------------------------------------------
(* Rocchio term selection *)

ALPHA == <<1, 1>>
BETA == <<3, 4>>
GAMMA == <<3, 20>>

RECURSIVE SumValues(_)
SumValues(d) == IF d = <<>> THEN 0 ELSE Head(d).v + SumValues(Tail(d))

RECURSIVE VectorFrom(_, _, _, _)
VectorFrom(tf_map, total_terms, N, df) ==
    IF tf_map = <<>> THEN <<>>
    ELSE LET e == Head(tf_map)
         IN  (IF e.k \in DOMAIN df /\ df[e.k] > 0
              THEN << [k |-> e.k, v |-> Norm(e.v * Log2Ratio(N, df[e.k]), total_terms)] >>
              ELSE <<>>) \o VectorFrom(Tail(tf_map), total_terms, N, df)

compute_doc_vector(tf_map, N, df) ==
    LET total_terms == SumValues(tf_map)
    IN  IF total_terms = 0 THEN <<>> ELSE VectorFrom(tf_map, total_terms, N, df)

\* acc[term] = acc.get(term, 0.0) + factor * weight, for each (term, weight) of vec
RECURSIVE Accumulate(_, _, _)
Accumulate(acc, vec, factor) ==
    IF vec = <<>> THEN acc
    ELSE Accumulate(Put(acc, Head(vec).k,
                        RAdd(Get(acc, Head(vec).k, RZero), RMul(factor, Head(vec).v))),
                    Tail(vec), factor)

\* The query vector: the multiplicity of each lowercased term
RECURSIVE QueryVector(_, _)
QueryVector(terms, Q0) ==
    IF terms = <<>> THEN Q0
    ELSE QueryVector(Tail(terms),
                     Put(Q0, Lower(Head(terms)),
                         RAdd(Get(Q0, Lower(Head(terms)), RZero), <<1, 1>>)))

\* The sums of the document vectors of the judged documents and their counts
RECURSIVE Centroids(_, _, _, _, _)
Centroids(docs_tokens, df, rel, idx, st) ==
    IF idx > Len(docs_tokens) THEN st
    ELSE LET tf_map == docs_tokens[idx]
             doc_vector == compute_doc_vector(tf_map, Len(docs_tokens), df)
         IN  IF tf_map = <<>>
             THEN Centroids(docs_tokens, df, rel, idx + 1, st)
             ELSE IF rel[idx]
             THEN Centroids(docs_tokens, df, rel, idx + 1,
                     [st EXCEPT !.num_rel = @ + 1,
                                !.relevant_vec = Accumulate(@, doc_vector, <<1, 1>>)])
             ELSE Centroids(docs_tokens, df, rel, idx + 1,
                     [st EXCEPT !.num_non_rel = @ + 1,
                                !.non_relevant_vec = Accumulate(@, doc_vector, <<1, 1>>)])

Average(vec, num) ==
    IF num > 0
    THEN [i \in 1..Len(vec) |-> [k |-> vec[i].k, v |-> RDivInt(vec[i].v, num)]]
    ELSE vec

\* Q_new = alpha * Q0 + beta * relevant_vec - gamma * non_relevant_vec
RocchioVector(terms, docs_tokens, df, rel) ==
    LET Q0 == QueryVector(terms, <<>>)
        st == Centroids(docs_tokens, df, rel, 1,
                        [relevant_vec |-> <<>>, non_relevant_vec |-> <<>>,
                         num_rel |-> 0, num_non_rel |-> 0])
        relevant_vec == Average(st.relevant_vec, st.num_rel)
        non_relevant_vec == Average(st.non_relevant_vec, st.num_non_rel)
        q1 == [i \in 1..Len(Q0) |-> [k |-> Q0[i].k, v |-> RMul(ALPHA, Q0[i].v)]]
        q2 == Accumulate(q1, relevant_vec, BETA)
    IN  Accumulate(q2, non_relevant_vec, RSub(RZero, GAMMA))

RECURSIVE SelectCandidates(_, _)
SelectCandidates(vec, current_set) ==
    IF vec = <<>> THEN <<>>
    ELSE (IF Head(vec).k \notin current_set THEN <<Head(vec)>> ELSE <<>>)
         \o SelectCandidates(Tail(vec), current_set)

\* One element put into a list sorted by descending score, after its equals
RECURSIVE InsertByScore(_, _)
InsertByScore(sorted, e) ==
    IF sorted = <<>> THEN <<e>>
    ELSE IF RLe(e.v, Head(sorted).v) THEN <<Head(sorted)>> \o InsertByScore(Tail(sorted), e)
    ELSE <<e>> \o sorted

\* list.sort(key=score, reverse=True): stable
RECURSIVE SortByScore(_, _)
SortByScore(cands, sorted) ==
    IF cands = <<>> THEN sorted
    ELSE SortByScore(Tail(cands), InsertByScore(sorted, Head(cands)))

\* The loop that picks up to max_new_terms terms
RECURSIVE PickFrom(_, _, _)
PickFrom(cands, max_new_terms, picked) ==
    IF cands = <<>> THEN picked
    ELSE LET p == IF RPos(Head(cands).v) THEN Append(picked, Head(cands).k) ELSE picked
         IN  IF Len(p) >= max_new_terms THEN p
             ELSE PickFrom(Tail(cands), max_new_terms, p)

\* Mutant: the current terms are compared as typed, not lowercased
pick_new_terms_cased(terms, docs_tokens, df, rel, max_new_terms) ==
    LET new_query_vec == RocchioVector(terms, docs_tokens, df, rel)
        current_set == Range(terms)
        candidate_terms == SortByScore(SelectCandidates(new_query_vec, current_set), <<>>)
    IN  PickFrom(candidate_terms, max_new_terms, <<>>)

pick_new_terms_rocchio(terms, docs_tokens, df, rel, max_new_terms) ==
    LET new_query_vec == RocchioVector(terms, docs_tokens, df, rel)
        current_set == {Lower(terms[i]) : i \in 1..Len(terms)}
        candidate_terms == SortByScore(SelectCandidates(new_query_vec, current_set), <<>>)
    IN  PickFrom(candidate_terms, max_new_terms, <<>>)

----------------------------------------------------------------------------
(* Term order *)

\* The adjacent-pair counts of the reference corpus for the words of the
\* model; a pair that is absent counts 0
bigram_freq(word1, word2) ==
    CASE word1 = <<"b">> /\ word2 = <<"c">> -> 2
      [] word1 = <<"c">> /\ word2 = <<"b">> -> 2
      [] word1 = <<"e">> /\ word2 = <<"c">> -> 3
      [] word1 = <<"c">> /\ word2 = <<"e">> -> 1
      [] word1 = <<"f">> /\ word2 = <<"b">> -> 1
      [] OTHER -> 0

\* Mutant: the order is kept only on a strictly higher count
reorder_query_strict(terms) ==
    IF Len(terms) < 2 THEN [raised |-> TRUE, value |-> <<>>]
    ELSE [raised |-> FALSE,
          value |-> IF bigram_freq(terms[1], terms[2]) > bigram_freq(terms[2], terms[1])
                    THEN terms ELSE <<terms[2], terms[1]>>]

\* terms[0] and terms[1] raise IndexError on a list of fewer than two terms
reorder_query(terms) ==
    IF Len(terms) < 2 THEN [raised |-> TRUE, value |-> <<>>]
    ELSE LET word1 == terms[1]
             word2 == terms[2]
             phrase1_freq == bigram_freq(word1, word2)
             phrase2_freq == bigram_freq(word2, word1)
         IN  [raised |-> FALSE,
              value |-> IF phrase1_freq >= phrase2_freq THEN terms ELSE <<word2, word1>>]

----------------------------------------------------------------------------
(* Bounds and inputs *)

\* search_query(..., num_results=10) and the test len(results) < 10
NumResults == 10

\* main() asks for up to two new terms
MaxNewTermsMain == 2

\* Positions of a batch that vary freely; the rest repeat one item
MaxVaried == 1

\* Longest batch of the function harness
MaxLen == 3

\* Largest max_new_terms of the function harness
MaxNew == 2

NaN == <<0, 0>>

\* float(sys.argv[3]): a number at the bottom of, inside and above [0, 1], and nan
Targets == { <<0, 1>>, <<9, 10>>, <<3, 2>>, NaN }

\* sys.argv[4]
QueryArgs ==
    { <<"x">>, <<"\"", "B", " ", " ", "c", " ", "B", "\"">> }

Item(title, link) == [title |-> title, link |-> link, snippet |-> << <<"c">> >>]

\* The items the search API may return to main()
ItemPool ==
    { Item(<< <<"B">> >>, <<"x">>),
      Item(<< <<"f">> >>, <<"x", "/", "e">>),
      Item(<< <<"e">> >>, <<"x", ".", "P", "D", "F">>) }

\* The items of the function harness: also a link with a query string
FnItemPool ==
    ItemPool \cup { Item(<< <<"c">> >>, <<"x", ".", "p", "d", "f", "?", "d">>) }

\* The item lists a retrieval may return
RetrievedCounts == {0, 7, NumResults}

Batch(n, head, fill) == [i \in 1..n |-> IF i <= MaxVaried THEN head[i] ELSE fill]

Batches ==
    { Batch(n, head, fill) :
        n \in RetrievedCounts, head \in [1..MaxVaried -> ItemPool], fill \in ItemPool }

\* The judgment sequences a user may give on n results
Judgments(n) ==
    { Batch(n, head, fill) : head \in [1..MaxVaried -> BOOLEAN], fill \in BOOLEAN }

----------------------------------------------------------------------------
(* main() *)

\* Mutant: precision > target_precision
FloatGt(p, t) == t # NaN /\ ~ RLe(p, t)

\* precision >= target_precision on floats: false when the target is nan
FloatGe(p, t) == t # NaN /\ RLe(t, p)

NoCall == [fn |-> "none"]

Init ==
    /\ pc = "RETRIEVE"
    /\ target_precision \in Targets
    /\ \E a \in QueryArgs : initial_query = StripQuotes(a)
    /\ current_query_terms = Split(initial_query)
    /\ iteration = 1
    /\ results = <<>>
    /\ relevance = <<>>
    /\ precision = RZero
    /\ new_terms = <<>>
    /\ prev_query_terms = current_query_terms
    /\ n_judged = 0
    /\ n_indexed = 0
    /\ n_selected = 0
    /\ arg = NoCall
    /\ ret = NoCall

\* Mutant: only an empty batch stops the loop
RetrieveAnyCount ==
    /\ pc = "RETRIEVE"
    /\ \E items \in Batches, raised \in BOOLEAN :
          LET res == search_query(items, raised)
          IN  /\ results' = res
              /\ pc' = IF res = <<>> THEN "STOP" ELSE "JUDGE"
    /\ UNCHANGED <<target_precision, initial_query, current_query_terms, iteration,
                   relevance, precision, new_terms, prev_query_terms,
                   n_judged, n_indexed, n_selected, arg, ret>>

\* Step 1: retrieve, and stop on a short first batch or an empty batch
Retrieve ==
    /\ pc = "RETRIEVE"
    /\ \E items \in Batches, raised \in BOOLEAN :
          LET res == search_query(items, raised)
          IN  /\ results' = res
              /\ pc' = IF Len(res) < NumResults /\ iteration = 1 THEN "STOP"
                       ELSE IF res = <<>> THEN "STOP"
                       ELSE "JUDGE"
    /\ UNCHANGED <<target_precision, initial_query, current_query_terms, iteration,
                   relevance, precision, new_terms, prev_query_terms,
                   n_judged, n_indexed, n_selected, arg, ret>>

\* Step 2: one judgment per result
Judge ==
    /\ pc = "JUDGE"
    /\ \E rel \in Judgments(Len(results)) : relevance' = rel
    /\ n_judged' = n_judged + Len(results)
    /\ pc' = "EVALUATE"
    /\ UNCHANGED <<target_precision, initial_query, current_query_terms, iteration,
                   results, precision, new_terms, prev_query_terms,
                   n_indexed, n_selected, arg, ret>>

\* Steps 3 and 4: the precision and the two stopping tests on it
Evaluate ==
    /\ pc = "EVALUATE"
    /\ LET p == compute_precision(results, relevance)
       IN  /\ precision' = p
           /\ pc' = IF FloatGe(p, target_precision) THEN "STOP"
                    ELSE IF p = RZero THEN "STOP"
                    ELSE "EXPAND"
    /\ UNCHANGED <<target_precision, initial_query, current_query_terms, iteration,
                   results, relevance, new_terms, prev_query_terms,
                   n_judged, n_indexed, n_selected, arg, ret>>

\* Steps 5 to 8: index, select, reorder, extend the query.  The batch, the
\* judgments and the precision of an iteration are dead once it ends (each is
\* assigned again before the next iteration reads it), so the step that
\* starts the next iteration leaves them empty.
Expand ==
    /\ pc = "EXPAND"
    /\ LET index == build_tfidf_index(results, TRUE)
           picked == pick_new_terms_rocchio(current_query_terms, index.docs_tokens,
                                            index.df, relevance, MaxNewTermsMain)
           ordered == reorder_query(picked)
       IN  /\ new_terms' = picked
           /\ prev_query_terms' = current_query_terms
           /\ IF picked = <<>>
              THEN /\ pc' = "STOP"
                   /\ UNCHANGED <<current_query_terms, iteration,
                                  results, relevance, precision>>
              ELSE IF ordered.raised
              THEN /\ pc' = "CRASHED"
                   /\ UNCHANGED <<current_query_terms, iteration,
                                  results, relevance, precision>>
              ELSE /\ current_query_terms' = current_query_terms \o ordered.value
                   /\ iteration' = iteration + 1
                   /\ pc' = "RETRIEVE"
                   /\ results' = <<>>
                   /\ relevance' = <<>>
                   /\ precision' = RZero
    /\ n_indexed' = n_indexed + 1
    /\ n_selected' = n_selected + 1
    /\ UNCHANGED <<target_precision, initial_query, n_judged, arg, ret>>

Next == Retrieve \/ Judge \/ Evaluate \/ Expand

Spec == Init /\ [][Next]_vars

----------------------------------------------------------------------------
(* The functions on their own: one call on a drawn batch and judgments *)

RECURSIVE SeqsUpTo(_, _)
SeqsUpTo(S, n) ==
    IF n = 0 THEN {<<>>}
    ELSE LET shorter == SeqsUpTo(S, n - 1)
         IN  shorter \cup {Append(q, x) : q \in {r \in shorter : Len(r) = n - 1}, x \in S}

FnInit ==
    /\ pc = "STOP"
    /\ target_precision = NaN
    /\ initial_query = <<>>
    /\ current_query_terms = <<>>
    /\ iteration = 1
    /\ results = <<>>
    /\ relevance = <<>>
    /\ precision = RZero
    /\ new_terms = <<>>
    /\ prev_query_terms = <<>>
    /\ n_judged = 0
    /\ n_indexed = 0
    /\ n_selected = 0
    /\ \E items \in SeqsUpTo(FnItemPool, MaxLen) :
         \E rel \in [1..Len(items) -> BOOLEAN] :
            arg = [fn |-> "args", items |-> items, relevance |-> rel]
    /\ ret = NoCall

\* The batch of the harness: the results of its items
ArgResults == search_query(arg.items, FALSE)

CallSearch ==
    /\ ret = NoCall
    /\ \E raised \in BOOLEAN :
          ret' = [fn |-> "search_query", val |-> search_query(arg.items, raised)]
    /\ UNCHANGED <<loopVars, arg>>

CallPrecision ==
    /\ ret = NoCall
    /\ ret' = [fn |-> "compute_precision",
               val |-> compute_precision(ArgResults, arg.relevance)]
    /\ UNCHANGED <<loopVars, arg>>

CallIndex ==
    /\ ret = NoCall
    /\ \E use_full_text \in BOOLEAN :
          ret' = [fn |-> "build_tfidf_index",
                  val |-> build_tfidf_index(ArgResults, use_full_text)]
    /\ UNCHANGED <<loopVars, arg>>

CallRocchio ==
    /\ ret = NoCall
    /\ \E a \in QueryArgs, max_new_terms \in 0..MaxNew :
          LET terms == Split(StripQuotes(a))
              index == build_tfidf_index(ArgResults, TRUE)
          IN  ret' = [fn |-> "pick_new_terms_rocchio",
                      terms |-> terms,
                      index |-> index,
                      max_new_terms |-> max_new_terms,
                      val |-> pick_new_terms_rocchio(terms, index.docs_tokens, index.df,
                                                     arg.relevance, max_new_terms)]
    /\ UNCHANGED <<loopVars, arg>>

FnNext == CallSearch \/ CallPrecision \/ CallIndex \/ CallRocchio

SpecFn == FnInit /\ [][FnNext]_vars

----------------------------------------------------------------------------
(* Properties *)

IsPrefix(p, q) == Len(p) <= Len(q) /\ SubSeq(q, 1, Len(p)) = p

\* The terms a step appended to the query
Appended == SubSeq(current_query_terms', Len(current_query_terms) + 1,
                   Len(current_query_terms'))

\* Nothing moves once the loop has stopped
StopIsFinal == pc = "STOP" => UNCHANGED vars

\* C1: when the retrieval of the first iteration returns fewer than 10
\* results (an absorbed failure included), that step goes from RETRIEVE to
\* STOP, no judgment has been collected, no index built and no selection run,
\* and the query is, and stays, the split initial query.
C1_ShortFirstBatchStops ==
    [][ /\ (pc = "RETRIEVE" /\ iteration = 1 /\ Len(results') < NumResults)
            => /\ pc' = "STOP"
               /\ current_query_terms' = Split(initial_query)
               /\ n_judged' = 0 /\ n_indexed' = 0 /\ n_selected' = 0
        /\ StopIsFinal ]_vars

C1_Witness ==
    /\ pc = "STOP" /\ iteration = 1 /\ Len(results) = 7
    /\ n_judged = 0 /\ current_query_terms = << <<"B">>, <<"c">>, <<"B">> >>

\* The comparisons of the claims, on the target as a real number
TargetReached(p, t) == t # NaN /\ RLe(t, p)
BelowTarget(p, t) == t # NaN /\ ~ RLe(t, p)

\* The step out of EVALUATE stops on a precision of 0.0 or one that reaches
\* the target, with no index built, no selection run and the query unchanged
EvaluateStops ==
    (pc = "EVALUATE" /\ (precision' = RZero \/ TargetReached(precision', target_precision)))
        => /\ pc' = "STOP"
           /\ UNCHANGED <<current_query_terms, n_indexed, n_selected>>

\* C2 as stated: the loop stops out of EVALUATE on a precision of 0.0 or at
\* least the target, for every target, and term selection is attempted only
\* when 0 < precision < target.
C2_Original ==
    [][ /\ EvaluateStops
        /\ StopIsFinal
        /\ (n_selected' # n_selected)
             => (RPos(precision) /\ BelowTarget(precision, target_precision)) ]_vars

\* C2, amended: the loop stops out of EVALUATE on a precision of 0.0 or at
\* least the target, for every target, and term selection is attempted only
\* when the precision is positive and does not reach the target: below a
\* target that is a number, and any positive precision when the target is nan.
C2_StopsOrBelowTarget ==
    [][ /\ EvaluateStops
        /\ StopIsFinal
        /\ (n_selected' # n_selected)
             => /\ RPos(precision)
                /\ (target_precision = NaN \/ BelowTarget(precision, target_precision)) ]_vars

C2_Witness ==
    /\ pc = "STOP" /\ Len(relevance) = NumResults /\ precision = RZero
    /\ target_precision = <<3, 2>> /\ n_selected = 0
    /\ \A i \in 1..Len(results) : results[i].is_html

\* C3: the terms a step appends differ, ignoring case, from every term the
\* query held before the step, and from each other; the terms the query held
\* keep their places.
C3_NewTermsAreNew ==
    [][ (current_query_terms' # current_query_terms)
          => /\ IsPrefix(current_query_terms, current_query_terms')
             /\ \A i \in 1..Len(Appended) :
                   /\ \A j \in 1..Len(current_query_terms) :
                         Lower(Appended[i]) # Lower(current_query_terms[j])
                   /\ \A j \in 1..Len(Appended) :
                         i # j => Lower(Appended[i]) # Lower(Appended[j]) ]_vars

\* An EXPAND step has added two terms to a query that began with a capital
C3_Witness ==
    /\ pc = "RETRIEVE" /\ iteration = 2
    /\ prev_query_terms = << <<"B">>, <<"c">>, <<"B">> >>
    /\ Len(current_query_terms) = 5

\* C4: when the selector returns exactly one new term, the step appends that
\* term to the query and goes on to the next RETRIEVE.
C4_Claim ==
    [][ (pc = "EXPAND" /\ Len(new_terms') = 1)
          => /\ pc' = "RETRIEVE"
             /\ current_query_terms' = current_query_terms \o new_terms' ]_vars

\* The score of a term in Q_new
Score(r, term) ==
    Get(RocchioVector(r.terms, r.index.docs_tokens, r.index.df, arg.relevance), term, RZero)

\* C5: pick_new_terms_rocchio returns at most max_new_terms terms, for every
\* max_new_terms >= 0, and each has a strictly positive score in Q_new.
C5_Claim ==
    ret.fn = "pick_new_terms_rocchio"
      => /\ Len(ret.val) <= ret.max_new_terms
         /\ \A i \in 1..Len(ret.val) : RPos(Score(ret, ret.val[i]))

Perms(n) == {f \in [1..n -> 1..n] : \A i, j \in 1..n : i # j => f[i] # f[j]}

Permuted(q, f) == [i \in 1..Len(q) |-> q[f[i]]]

\* C6: compute_precision is the number of HTML documents judged relevant
\* over the number of HTML documents, 0.0 when there is no HTML document,
\* and is the same on both sequences permuted alike.
C6_PrecisionFormula ==
    ret.fn = "compute_precision"
      => LET n == Len(ArgResults)
             indexable == {i \in 1..n : ArgResults[i].is_html}
             relevant == {i \in indexable : arg.relevance[i]}
         IN  /\ indexable = {} => ret.val = RZero
             /\ indexable # {}
                  => /\ ret.val[1] * Cardinality(indexable)
                          = Cardinality(relevant) * ret.val[2]
                     /\ ret.val[2] > 0
             /\ \A f \in Perms(n) :
                   compute_precision(Permuted(ArgResults, f), Permuted(arg.relevance, f))
                     = ret.val

\* A batch with a non-HTML document judged relevant and HTML documents of
\* both judgments
C6_Witness ==
    /\ ret.fn = "compute_precision"
    /\ ret.val = <<1, 2>>
    /\ \E i \in 1..Len(ArgResults) : ~ ArgResults[i].is_html /\ arg.relevance[i]

RECURSIVE UrlPath(_)
UrlPath(url) ==
    IF url = <<>> \/ Head(url) \in {"?", "#"} THEN <<>>
    ELSE <<Head(url)>> \o UrlPath(Tail(url))

\* C8: a retrieved document is not indexable exactly when the lowercased
\* path of its URL ends with one of the non-HTML extensions, a query string
\* or fragment after the path notwithstanding.
C8_Claim ==
    ret.fn = "search_query"
      => \A i \in 1..Len(ret.val) :
            (ret.val[i].is_html = FALSE)
              <=> \E ext \in NON_HTML_EXTENSIONS :
                     EndsWith(Lower(UrlPath(ret.val[i].link)), ext)

\* C9 as stated: the document frequency map has at most as many entries as
\* the batch has documents.
C9_Original ==
    ret.fn = "build_tfidf_index"
      => Cardinality(DOMAIN ret.val.df) <= Len(ArgResults)

\* C9, amended: every count of the document frequency map is at least 1 and
\* at most the number of HTML documents of the batch, hence at most the
\* number of documents.
C9_CountsBounded ==
    ret.fn = "build_tfidf_index"
      => \A t \in DOMAIN ret.val.df :
            /\ ret.val.df[t] >= 1
            /\ ret.val.df[t]
                 <= Cardinality({i \in 1..Len(ArgResults) : ArgResults[i].is_html})
            /\ ret.val.df[t] <= Len(ArgResults)

\* A term that occurs twice in one document and in every HTML document
C9_Witness ==
    /\ ret.fn = "build_tfidf_index"
    /\ Len(ArgResults) = 3
    /\ \E t \in DOMAIN ret.val.df :
          /\ ret.val.df[t] = 2
          /\ \E i \in 1..3 : Get(ret.val.docs_tokens[i], t, 0) = 2

\* The tokens of the documents a retrieval may return
Vocabulary ==
    UNION { Range(tokenize(item.title \o fetch_full_text(item.link))) : item \in ItemPool }

\* C10: every step that changes the query appends to it at least one term
\* it did not hold and leaves the initial query its prefix, no run makes more
\* EXPAND steps than the documents have distinct tokens, and the loop ends
\* nowhere but in STOP.
C10_Claim ==
    [][ /\ (current_query_terms' # current_query_terms)
             => /\ IsPrefix(current_query_terms, current_query_terms')
                /\ IsPrefix(Split(initial_query), current_query_terms')
                /\ \E i \in 1..Len(Appended) :
                      \A j \in 1..Len(current_query_terms) :
                         Lower(Appended[i]) # Lower(current_query_terms[j])
        /\ iteration' - 1 <= Cardinality(Vocabulary)
        /\ pc' \in {"RETRIEVE", "JUDGE", "EVALUATE", "EXPAND", "STOP"} ]_vars

====
